---- MODULE Spec2Model ----
(***************************************************************************)
(* Model of calloop's Unix signal event source (src/sources/signals.rs).   *)
(*                                                                         *)
(* The program state is the thread's signal mask, the thread's pending     *)
(* signals, the Signals struct (its tracked `mask` and its shared          *)
(* SignalFd), and the Dispatcher made from it.  The kernel side follows    *)
(* sigprocmask(2), signalfd(2) and signal(7): a standard signal raised     *)
(* while blocked is marked pending (at most once), a signal raised while   *)
(* unblocked takes its disposition at once, unblocking a pending signal    *)
(* delivers it at once.  A signal sent to the thread (raise, pthread_kill) *)
(* pends in the thread's own queue, one sent to the process (kill) in the  *)
(* process's queue; a read of the signalfd dequeues from the thread's      *)
(* queue first, then from the process's; in each it takes a synchronous    *)
(* signal of the fd's mask when there is one, and of those, or else of     *)
(* all, the one with the lowest number (kernel/signal.c, dequeue_signal    *)
(* and next_signal), whatever the order in which the signals were raised.  *)
(* A signal that is neither blocked nor handled is discarded when sent.    *)
(***************************************************************************)
EXTENDS Integers, Sequences, FiniteSets, TLC

VARIABLES
    threadMask,   \* signals blocked on the calling thread
    pending,      \* signals pending in the thread's own queue (sent to the
                  \*   thread while blocked)
    shared,       \* signals pending in the process's queue (sent to the
                  \*   process while blocked)
    st,           \* "none" (no Signals value), "live", "dropped"
    mask,         \* Signals.mask: the tracked SigSet
    sfdOpen,      \* the SignalFd exists (some Rc clone of it is alive)
    sfdMask,      \* the mask committed to the SignalFd
    disp,         \* how many Dispatchers made by make_dispatcher are alive
    delivered,    \* Events given to the callback by the ready() that runs
                  \*   or has just returned
    readyRet,     \* "running": ready() is in its loop (the callback has
                  \*   returned, the next read is due); how it ended:
                  \*   "drained", "error"; "none" when the last step was
                  \*   no step of a ready()
    midDrain,     \* how many steps other than its reads were made while
                  \*   that ready() ran: signals sent, calls of its callback
    initMask,     \* history: the thread mask before any call (M0)
    allOk,        \* history: every call so far returned success
    lastOp,       \* history: the last API call [op, fail, arg]
    missed,       \* history: signals raised while unblocked since the last
                  \*   API call (they took their disposition at once)
    touched,      \* history: the signals passed to the calls so far
    roundTrip,    \* history: an add_signals(A) with A disjoint from the
                  \*   tracked set, and the remove_signals(A) right after it
    arrivals,     \* history: the sends [sig, to] that were marked pending
                  \*   or coalesced, in order, not yet read nor unblocked
    queued,       \* history: `arrivals` as the last ready() found it,
                  \*   without the sends of signals unblocked since
    readLog,      \* history: the results of the reads that ready() made
    owned,        \* history: the signals the calls on the instance blocked
                  \*   on the thread and have not unblocked again
    registered,   \* the SignalFd is registered with the event loop's Poll
    notify,       \* the Poll holds a readiness event of the SignalFd that
                  \*   the event loop has not dispatched yet
    pc,           \* where a running set_signals stands: "idle" (no call
                  \*   running), "unblocked" (line 116 done), "blocked"
                  \*   (line 117 done)
    newMask,      \* the new_mask of the running set_signals
    peer          \* a second Signals value on the same thread
                  \*   [st, mask, sfd]

vars == <<threadMask, pending, shared, st, mask, sfdOpen, sfdMask, disp,
          delivered, readyRet, midDrain, initMask, allOk, lastOp, missed,
          touched, roundTrip, arrivals, queued, readLog, owned, registered,
          notify, pc, newMask, peer>>

\* the variables of the Signals value, the SignalFd and the Dispatcher
objVars == <<st, mask, sfdOpen, sfdMask, disp>>
\* the variables of the thread's signal state
sigVars == <<threadMask, pending, shared>>
\* the ready() that runs or has just run
drainVars == <<delivered, readyRet, midDrain>>
\* the histories of the API calls
callVars == <<allOk, lastOp, missed>>
\* the histories of what was passed to the calls
tripVars == <<touched, roundTrip>>
\* the histories of the sends and of the reads
logVars == <<arrivals, queued, readLog>>
\* the event loop's registration of the source
pollVars == <<registered, notify>>
\* the position inside a running set_signals
stepVars == <<pc, newMask>>

-----------------------------------------------------------------------------
(* Bounds *)

\* longest log of sends kept between drains
MaxArrivals == 2

\* most steps other than reads (signals sent, calls of the callback) while
\* one ready() runs
MaxMidDrain == 1

\* most Dispatchers made from one Signals value that are alive at a time
MaxDispatchers == 1

-----------------------------------------------------------------------------
(* Signals and their numbers (nix::sys::signal::Signal, Linux numbering) *)

\* the signals of nix's Signal enum by number (Linux, x86)
SignalName ==
    <<"SIGHUP", "SIGINT", "SIGQUIT", "SIGILL", "SIGTRAP", "SIGABRT", "SIGBUS",
      "SIGFPE", "SIGKILL", "SIGUSR1", "SIGSEGV", "SIGUSR2", "SIGPIPE",
      "SIGALRM", "SIGTERM", "SIGSTKFLT", "SIGCHLD", "SIGCONT", "SIGSTOP",
      "SIGTSTP", "SIGTTIN", "SIGTTOU", "SIGURG", "SIGXCPU", "SIGXFSZ",
      "SIGVTALRM", "SIGPROF", "SIGWINCH", "SIGIO", "SIGPWR", "SIGSYS">>

\* the signals the model sends and passes to the calls
Signal == {"SIGINT", "SIGTERM"}

\* the signals of the specification of the dequeue order: two synchronous
\* ones and two others
Wide == {"SIGINT", "SIGILL", "SIGSEGV", "SIGTERM"}

\* the signals the kernel dequeues first (SYNCHRONOUS_MASK)
Synchronous == {"SIGSEGV", "SIGBUS", "SIGILL", "SIGTRAP", "SIGFPE", "SIGSYS"}

\* how a signal is sent: to the thread (raise, pthread_kill) or to the
\* process (kill)
Origin == {"thread", "process"}

Signo(s) == CHOOSE n \in DOMAIN SignalName : SignalName[n] = s

\* Signal::from_c_int: the Signal of a number, or an error
from_c_int(n) ==
    IF n \in DOMAIN SignalName
    THEN [ok |-> TRUE, val |-> SignalName[n]]
    ELSE [ok |-> FALSE, val |-> "EINVAL"]

\* Event { info }, built by ready() from the siginfo read
Event(info) == [info |-> info]

\* Event::signal: from_c_int(info.ssi_signo).unwrap()
EventSignal(e) ==
    LET r == from_c_int(e.info.ssi_signo)
    IN  IF r.ok THEN r.val ELSE "panic"

\* the &[Signal] arguments: every slice of at most as many signals as there
\* are (so every set, in every order, and slices that repeat a signal)
Slices == UNION {[1..n -> Signal] : n \in 0..Cardinality(Signal)}

\* `for &s in signals { set.add(s) }`
RECURSIVE AddAll(_, _)
AddAll(set, signals) ==
    IF signals = <<>> THEN set
    ELSE AddAll(set \cup {Head(signals)}, Tail(signals))

\* a removal loop that stops after the first signal of the slice
RemoveAll_first(set, signals) ==
    IF signals = <<>> THEN set ELSE set \ {Head(signals)}

\* `for &s in signals { set.remove(s) }`
RECURSIVE RemoveAll(_, _)
RemoveAll(set, signals) ==
    IF signals = <<>> THEN set
    ELSE RemoveAll(set \ {Head(signals)}, Tail(signals))

-----------------------------------------------------------------------------
(* Kernel side of the calls the source makes *)

\* SigSet::thread_block: pthread_sigmask(SIG_BLOCK, set)
thread_block(blocked, set) == blocked \cup set

\* SigSet::thread_unblock: pthread_sigmask(SIG_UNBLOCK, set)
thread_unblock(blocked, set) == blocked \ set

\* a send of signal s, to the thread or to the process
Rec(s, to) == [sig |-> s, to |-> to]

\* the sends still logged once the signals of `set` were unblocked
Without(log, set) == SelectSeq(log, LAMBDA r : r.sig \notin set)

\* the sends still logged once the record `rec` was read
WithoutRec(log, rec) == SelectSeq(log, LAMBDA r : r # rec)

\* a next_signal that takes the lowest number of all
next_signal_lowest(S) ==
    CHOOSE s \in S : \A t \in S : Signo(s) <= Signo(t)

\* next_signal: of the signals S of a queue (S not empty) the synchronous
\* ones go first; of those, or else of all, the lowest number
next_signal(S) ==
    LET sync == S \cap Synchronous
        from == IF sync # {} THEN sync ELSE S
    IN  CHOOSE s \in from : \A t \in from : Signo(s) <= Signo(t)

\* nothing to dequeue
NoSig == [sig |-> "none", to |-> "none"]

\* dequeue_signal: the record a read takes, given the readable signals of the
\* thread's queue and of the process's queue
dequeue_signal(priv, shrd) ==
    IF priv # {} THEN Rec(next_signal(priv), "thread")
    ELSE IF shrd # {} THEN Rec(next_signal(shrd), "process")
    ELSE NoSig

NoOp == [op |-> "none", fail |-> 0, arg |-> {}]
\* no second Signals value
NoPeer == [st |-> "none", mask |-> {}, sfd |-> {}]

NoTrip == [stage |-> "none", arg |-> {}, pre |-> {}]

-----------------------------------------------------------------------------
(* The methods of Signals, as functions of the struct `self` = [mask, sfd]
   (sfd: the mask committed to its SignalFd), of the thread's blocked set and
   of the step that fails (fail = 0: none).  Each gives the struct and the
   blocked set it leaves, and `unb`: the signals it unblocked on the way. *)

\* a new() that opens the SignalFd on an empty mask
new_nomask(blocked, signals, fail) ==
    LET m == AddAll({}, signals) IN
    [ok |-> fail = 0, mask |-> IF fail = 0 THEN m ELSE {}, sfd |-> {},
     blocked |-> IF fail = 1 THEN blocked ELSE thread_block(blocked, m),
     unb |-> {}]

\* a new() that unblocks the signals again when the SignalFd cannot be made
new_rollback(blocked, signals, fail) ==
    LET m == AddAll({}, signals) IN
    [ok |-> fail = 0, mask |-> IF fail = 0 THEN m ELSE {},
     sfd |-> IF fail = 0 THEN m ELSE {},
     blocked |-> IF fail = 0 THEN thread_block(blocked, m) ELSE blocked,
     unb |-> {}]

(* Signals::new; fail = 1: thread_block fails, 2: SignalFd::with_flags fails *)
new(blocked, signals, fail) ==
    LET m == AddAll({}, signals) IN
    IF fail = 1
    THEN [ok |-> FALSE, mask |-> {}, sfd |-> {}, blocked |-> blocked, unb |-> {}]
    ELSE IF fail = 2
    THEN [ok |-> FALSE, mask |-> {}, sfd |-> {},
          blocked |-> thread_block(blocked, m), unb |-> {}]
    ELSE [ok |-> TRUE, mask |-> m, sfd |-> m,
          blocked |-> thread_block(blocked, m), unb |-> {}]

\* an add_signals() that never commits the new mask to the SignalFd
add_signals_nocommit(self, blocked, signals, fail) ==
    LET m == AddAll(self.mask, signals) IN
    [ok |-> fail = 0, mask |-> m, sfd |-> self.sfd,
     blocked |-> IF fail = 1 THEN blocked ELSE thread_block(blocked, m),
     unb |-> {}]

\* an add_signals() that puts the old tracked set back when a step fails
add_signals_rollback(self, blocked, signals, fail) ==
    LET m == AddAll(self.mask, signals) IN
    [ok |-> fail = 0, mask |-> IF fail = 0 THEN m ELSE self.mask,
     sfd |-> IF fail = 0 THEN m ELSE self.sfd,
     blocked |-> IF fail = 1 THEN blocked ELSE thread_block(blocked, m),
     unb |-> {}]

(* Signals::add_signals; fail = 1: thread_block fails, 2: set_mask fails *)
add_signals(self, blocked, signals, fail) ==
    LET m == AddAll(self.mask, signals) IN
    IF fail = 1
    THEN [ok |-> FALSE, mask |-> m, sfd |-> self.sfd, blocked |-> blocked,
          unb |-> {}]
    ELSE IF fail = 2
    THEN [ok |-> FALSE, mask |-> m, sfd |-> self.sfd,
          blocked |-> thread_block(blocked, m), unb |-> {}]
    ELSE [ok |-> TRUE, mask |-> m, sfd |-> m,
          blocked |-> thread_block(blocked, m), unb |-> {}]

\* a remove_signals() that leaves the thread mask alone
remove_signals_keep(self, blocked, signals, fail) ==
    LET m == RemoveAll(self.mask, signals) IN
    [ok |-> fail = 0, mask |-> m, sfd |-> IF fail = 0 THEN m ELSE self.sfd,
     blocked |-> blocked, unb |-> {}]

\* a remove_signals() that unblocks the whole set tracked before the call
remove_signals_all(self, blocked, signals, fail) ==
    LET m == RemoveAll(self.mask, signals) IN
    [ok |-> fail = 0, mask |-> m, sfd |-> IF fail = 0 THEN m ELSE self.sfd,
     blocked |-> IF fail = 1 THEN blocked ELSE thread_unblock(blocked, self.mask),
     unb |-> IF fail = 1 THEN {} ELSE self.mask]

(* Signals::remove_signals; fail = 1: thread_unblock fails, 2: set_mask fails *)
remove_signals(self, blocked, signals, fail) ==
    LET m == RemoveAll(self.mask, signals)
        removed == AddAll({}, signals)
    IN
    IF fail = 1
    THEN [ok |-> FALSE, mask |-> m, sfd |-> self.sfd, blocked |-> blocked,
          unb |-> {}]
    ELSE IF fail = 2
    THEN [ok |-> FALSE, mask |-> m, sfd |-> self.sfd,
          blocked |-> thread_unblock(blocked, removed), unb |-> removed]
    ELSE [ok |-> TRUE, mask |-> m, sfd |-> m,
          blocked |-> thread_unblock(blocked, removed), unb |-> removed]

\* a set_signals() that assigns self.mask before its fallible steps
set_signals_eager(self, blocked, signals, fail) ==
    LET new_mask == AddAll({}, signals)
        unblocked == thread_unblock(blocked, self.mask)
    IN
    [ok |-> fail = 0, mask |-> new_mask,
     sfd |-> IF fail = 0 THEN new_mask ELSE self.sfd,
     blocked |-> IF fail = 1 THEN blocked
                 ELSE IF fail = 2 THEN unblocked
                 ELSE thread_block(unblocked, new_mask),
     unb |-> IF fail = 1 THEN {} ELSE self.mask]

(* Signals::set_signals; fail = 1: thread_unblock fails, 2: thread_block
   fails, 3: set_mask fails *)
set_signals(self, blocked, signals, fail) ==
    LET new_mask == AddAll({}, signals)
        unblocked == thread_unblock(blocked, self.mask)
    IN
    IF fail = 1
    THEN [ok |-> FALSE, mask |-> self.mask, sfd |-> self.sfd,
          blocked |-> blocked, unb |-> {}]
    ELSE IF fail = 2
    THEN [ok |-> FALSE, mask |-> self.mask, sfd |-> self.sfd,
          blocked |-> unblocked, unb |-> self.mask]
    ELSE IF fail = 3
    THEN [ok |-> FALSE, mask |-> self.mask, sfd |-> self.sfd,
          blocked |-> thread_block(unblocked, new_mask), unb |-> self.mask]
    ELSE [ok |-> TRUE, mask |-> new_mask, sfd |-> new_mask,
          blocked |-> thread_block(unblocked, new_mask), unb |-> self.mask]

\* a drop() that empties the thread's signal mask
drop_clear(self, blocked, fail) ==
    [ok |-> fail = 0, mask |-> self.mask, sfd |-> self.sfd,
     blocked |-> IF fail = 1 THEN blocked ELSE {},
     unb |-> IF fail = 1 THEN {} ELSE blocked]

\* a drop() that does not unblock anything
drop_noop(self, blocked, fail) ==
    [ok |-> fail = 0, mask |-> self.mask, sfd |-> self.sfd, blocked |-> blocked,
     unb |-> {}]

(* Drop for Signals; fail = 1: thread_unblock fails, which is only logged *)
drop(self, blocked, fail) ==
    IF fail = 1
    THEN [ok |-> FALSE, mask |-> self.mask, sfd |-> self.sfd,
          blocked |-> blocked, unb |-> {}]
    ELSE [ok |-> TRUE, mask |-> self.mask, sfd |-> self.sfd,
          blocked |-> thread_unblock(blocked, self.mask), unb |-> self.mask]

-----------------------------------------------------------------------------
(* SignalFd::read_signal: one read.  The kernel hands out the next record
   of the fd's mask (dequeue_signal); a read with nothing to take gives
   Ok(None); `fail`: this read fails, and takes nothing.  The siginfo tells
   the signal and how it was sent (si_code SI_TKILL or SI_USER). *)
Some(rec) ==
    [tag |-> "Some",
     info |-> [ssi_signo |-> Signo(rec.sig),
               ssi_code |-> IF rec.to = "thread" THEN "SI_TKILL" ELSE "SI_USER"]]
None == [tag |-> "None"]
Err == [tag |-> "Err"]

read_signal(priv, shrd, fdmask, fail) ==
    LET rec == dequeue_signal(priv \cap fdmask, shrd \cap fdmask) IN
    IF fail THEN Err
    ELSE IF rec = NoSig THEN None
    ELSE Some(rec)

\* a loop that goes on reading after a failed read
ready_loop_continue(res, cb) ==
    CASE res.tag = "Some" ->
            [cb |-> Append(cb, Event(res.info)), next |-> "running"]
      [] res.tag = "None" -> [cb |-> cb, next |-> "drained"]
      [] res.tag = "Err" -> [cb |-> cb, next |-> "running"]

(* one turn of the loop of Dispatcher::ready on the result `res` of its
   read, with the callback's calls so far in cb: the callback is called and
   the loop goes on, or ready() returns *)
ready_loop(res, cb) ==
    CASE res.tag = "Some" ->
            [cb |-> Append(cb, Event(res.info)), next |-> "running"]
      [] res.tag = "None" -> [cb |-> cb, next |-> "drained"]
      [] res.tag = "Err" -> [cb |-> cb, next |-> "error"]

\* the record an event tells of
EventRec(e) ==
    Rec(EventSignal(e),
        IF e.info.ssi_code = "SI_TKILL" THEN "thread" ELSE "process")

\* the record a read took
Taken(res) == IF res.tag = "Some" THEN EventRec(Event(res.info)) ELSE NoSig

-----------------------------------------------------------------------------
\* the Signals value as the methods see it
Self == [mask |-> mask, sfd |-> sfdMask]

\* a step of the thread that is no read of a ready().  While a ready() runs
\* it is a step between two turns of its loop (lines 201-203: the borrow of
\* the SignalFd ends with the read, so that the callback may call the
\* methods of the Signals value or drop it): ready() goes on afterwards.
\* Otherwise no ready() has just run afterwards.
NoRead ==
    IF readyRet = "running"
    THEN /\ midDrain < MaxMidDrain
         /\ midDrain' = midDrain + 1
         /\ UNCHANGED <<delivered, readyRet>>
    ELSE /\ delivered' = <<>>
         /\ readyRet' = "none"
         /\ midDrain' = 0

\* the thread's signal state after a call that left `blocked` blocked and
\* unblocked `unb` on the way: a pending signal that gets unblocked is
\* delivered on the spot
SetThreadMask(blocked, unb) ==
    /\ threadMask' = blocked
    /\ pending' = pending \ unb
    /\ shared' = shared \ unb

-----------------------------------------------------------------------------
Init ==
    /\ initMask \in SUBSET Signal
    /\ threadMask = initMask
    /\ pending = {}
    /\ shared = {}
    /\ st = "none"
    /\ mask = {}
    /\ sfdOpen = FALSE
    /\ sfdMask = {}
    /\ disp = 0
    /\ delivered = <<>>
    /\ readyRet = "none"
    /\ midDrain = 0
    /\ allOk = TRUE
    /\ lastOp = NoOp
    /\ missed = {}
    /\ touched = {}
    /\ roundTrip = NoTrip
    /\ arrivals = <<>>
    /\ queued = <<>>
    /\ readLog = <<>>
    /\ owned = {}
    /\ registered = FALSE
    /\ notify = FALSE
    /\ pc = "idle"
    /\ newMask = {}
    /\ peer = NoPeer

-----------------------------------------------------------------------------
(* Create: a call of Signals::new *)
Create(signals, fail) ==
    /\ st = "none"
    /\ LET r == new(threadMask, signals, fail) IN
       /\ SetThreadMask(r.blocked, r.unb)
       /\ IF r.ok
          THEN /\ st' = "live"
               /\ mask' = r.mask
               /\ sfdOpen' = TRUE
               /\ sfdMask' = r.sfd
          ELSE UNCHANGED <<st, mask, sfdOpen, sfdMask>>
    /\ NoRead
    /\ UNCHANGED <<disp, initMask>>

\* a method call on the live Signals value leaves it as `r`
Method(r) ==
    /\ SetThreadMask(r.blocked, r.unb)
    /\ mask' = r.mask
    /\ sfdMask' = r.sfd
    /\ NoRead
    /\ UNCHANGED <<st, sfdOpen, disp, initMask>>

(* AddSignals: a call of Signals::add_signals *)
AddSignals(signals, fail) ==
    /\ st = "live"
    /\ Method(add_signals(Self, threadMask, signals, fail))

(* RemoveSignals: a call of Signals::remove_signals *)
RemoveSignals(signals, fail) ==
    /\ st = "live"
    /\ Method(remove_signals(Self, threadMask, signals, fail))

(* ReplaceSignals: a call of Signals::set_signals *)
ReplaceSignals(signals, fail) ==
    /\ st = "live"
    /\ Method(set_signals(Self, threadMask, signals, fail))

(* Dispose: the Signals value is dropped.  Its sfd field is an Rc: the
   SignalFd is closed unless a Dispatcher holds a clone. *)
Dispose(fail) ==
    /\ st = "live"
    /\ LET r == drop(Self, threadMask, fail) IN
       /\ SetThreadMask(r.blocked, r.unb)
       /\ mask' = r.mask
       /\ sfdMask' = r.sfd
    /\ st' = "dropped"
    /\ sfdOpen' = (disp > 0)
    /\ NoRead
    /\ UNCHANGED <<disp, initMask>>

(* EventSource::make_dispatcher: the Dispatcher holds a clone of the Rc *)
make_dispatcher ==
    /\ st = "live"
    /\ disp < MaxDispatchers
    /\ disp' = disp + 1
    /\ NoRead
    /\ UNCHANGED <<st, mask, sfdOpen, sfdMask, initMask, sigVars>>

(* a Dispatcher is dropped: its Rc clone goes away.  The Dispatcher whose
   ready() runs is borrowed by the event loop and stays. *)
drop_dispatcher ==
    /\ disp > 0
    /\ readyRet = "running" => disp > 1
    /\ disp' = disp - 1
    /\ sfdOpen' = (st = "live" \/ disp' > 0)
    /\ NoRead
    /\ UNCHANGED <<st, mask, sfdMask, initMask, sigVars>>

(* Dispatcher::ready, called by the event loop, one turn of its loop per
   step: a read and, for a record, the call of the callback.  The first turn
   begins the call.  Between two turns the callback has run: signals may
   have been sent (Raise) and the calls on the Signals value made. *)
ready(fail) ==
    /\ disp > 0
    /\ LET fresh == readyRet # "running"
           res == read_signal(pending, shared, sfdMask, fail)
           r == ready_loop(res, IF fresh THEN <<>> ELSE delivered)
           rec == Taken(res)
       IN
       /\ delivered' = r.cb
       /\ readyRet' = r.next
       /\ midDrain' = IF fresh THEN 0 ELSE midDrain
       /\ pending' = IF rec.to = "thread" THEN pending \ {rec.sig} ELSE pending
       /\ shared' = IF rec.to = "process" THEN shared \ {rec.sig} ELSE shared
    /\ UNCHANGED <<threadMask, objVars, initMask>>

(* A signal is sent to the thread (raise, pthread_kill) or to the process
   (kill), by the callback of a running ready() or by anybody else.  A
   blocked signal pends in the queue it was sent to, once; one that is not
   blocked takes its disposition. *)
Raise(s, to) ==
    /\ IF s \in threadMask
       THEN /\ pending' = IF to = "thread" THEN pending \cup {s} ELSE pending
            /\ shared' = IF to = "process" THEN shared \cup {s} ELSE shared
       ELSE UNCHANGED <<pending, shared>>
    /\ NoRead
    /\ UNCHANGED <<threadMask, objVars, initMask>>

-----------------------------------------------------------------------------
(* What the properties keep of a behaviour: the histories, each written by
   the specifications that need it *)

\* what a call of `op` with the slice `signals` returns and leaves
Ret(op, signals, fail) ==
    CASE op = "new" -> new(threadMask, signals, fail)
      [] op = "add" -> add_signals(Self, threadMask, signals, fail)
      [] op = "remove" -> remove_signals(Self, threadMask, signals, fail)
      [] op = "set" -> set_signals(Self, threadMask, signals, fail)
      [] op = "drop" -> drop(Self, threadMask, fail)

\* history kept of every API call: `arg` is the set of signals passed, kept
\* for remove_signals and for a new or an add_signals that returned an error
Record(op, arg, ok, fail) ==
    /\ lastOp' = [op |-> op, fail |-> fail,
                  arg |-> IF op = "remove" \/ (~ok /\ op \in {"new", "add"})
                          THEN arg ELSE {}]
    /\ allOk' = (allOk /\ ok)
    /\ missed' = {}

RecordCall(op, signals, fail) ==
    Record(op, AddAll({}, signals), Ret(op, signals, fail).ok, fail)

\* history kept of a signal sent: it was queued, or it was missed
RecordRaise(s) ==
    /\ missed' = IF s \in threadMask THEN missed ELSE missed \cup {s}
    /\ UNCHANGED <<allOk, lastOp>>

\* history kept of what was passed to the calls
Trip(op, arg, ok) ==
    /\ touched' = touched \cup arg
    /\ roundTrip' =
         IF op = "add" /\ ok /\ arg \cap mask = {}
         THEN [stage |-> "added", arg |-> arg, pre |-> mask]
         ELSE IF op = "remove" /\ ok /\ roundTrip.stage = "added"
                 /\ arg = roundTrip.arg
         THEN [roundTrip EXCEPT !.stage = "removed"]
         ELSE NoTrip

TripCall(op, signals, fail) ==
    Trip(op, AddAll({}, signals), Ret(op, signals, fail).ok)

\* the logs after a call: the sends of the signals it unblocked are gone
LogCall(op, signals, fail) ==
    LET unb == Ret(op, signals, fail).unb IN
    /\ arrivals' = Without(arrivals, unb)
    /\ IF readyRet = "running"
       THEN queued' = Without(queued, unb) /\ UNCHANGED readLog
       ELSE queued' = <<>> /\ readLog' = <<>>

\* the logs after a step that is neither a call, a send nor a read
LogIdle ==
    /\ IF readyRet = "running"
       THEN UNCHANGED <<queued, readLog>>
       ELSE queued' = <<>> /\ readLog' = <<>>
    /\ UNCHANGED arrivals

\* the logs after a signal was sent
LogRaise(s, to) ==
    /\ IF s \in threadMask
       THEN /\ Len(arrivals) < MaxArrivals
            /\ arrivals' = Append(arrivals, Rec(s, to))
       ELSE UNCHANGED arrivals
    /\ IF readyRet = "running"
       THEN UNCHANGED <<queued, readLog>>
       ELSE queued' = <<>> /\ readLog' = <<>>

\* the logs after a turn of ready()
LogRead(fail) ==
    LET fresh == readyRet # "running"
        res == read_signal(pending, shared, sfdMask, fail)
    IN
    /\ readLog' = Append(IF fresh THEN <<>> ELSE readLog, res)
    /\ queued' = IF fresh THEN arrivals ELSE queued
    /\ arrivals' = WithoutRec(arrivals, Taken(res))

-----------------------------------------------------------------------------
(* Spec: the calls on one Signals value and on its Dispatchers, each call
   one step *)
specFrame == <<logVars, owned, pollVars, stepVars, peer>>

Next ==
    \/ \E signals \in Slices, fail \in 0..2 :
          /\ Create(signals, fail)
          /\ RecordCall("new", signals, fail)
          /\ TripCall("new", signals, fail)
          /\ UNCHANGED specFrame
    \/ \E signals \in Slices, fail \in 0..2 :
          /\ AddSignals(signals, fail)
          /\ RecordCall("add", signals, fail)
          /\ TripCall("add", signals, fail)
          /\ UNCHANGED specFrame
    \/ \E signals \in Slices, fail \in 0..2 :
          /\ RemoveSignals(signals, fail)
          /\ RecordCall("remove", signals, fail)
          /\ TripCall("remove", signals, fail)
          /\ UNCHANGED specFrame
    \/ \E signals \in Slices, fail \in 0..3 :
          /\ ReplaceSignals(signals, fail)
          /\ RecordCall("set", signals, fail)
          /\ TripCall("set", signals, fail)
          /\ UNCHANGED specFrame
    \/ \E fail \in 0..1 :
          /\ Dispose(fail)
          /\ RecordCall("drop", <<>>, fail)
          /\ TripCall("drop", <<>>, fail)
          /\ UNCHANGED specFrame
    \/ make_dispatcher /\ UNCHANGED <<callVars, tripVars, specFrame>>
    \/ drop_dispatcher /\ UNCHANGED <<callVars, tripVars, specFrame>>

Spec == Init /\ [][Next]_vars

-----------------------------------------------------------------------------
(* SpecDrain: the calls, the signals sent and the event loop's calls of
   ready(), with the logs of the sends and of the reads *)
drainFrame == <<tripVars, owned, pollVars, stepVars, peer>>

NextDrain ==
    \/ \E signals \in Slices, fail \in 0..2 :
          /\ Create(signals, fail)
          /\ RecordCall("new", signals, fail)
          /\ LogCall("new", signals, fail)
          /\ UNCHANGED drainFrame
    \/ \E signals \in Slices, fail \in 0..2 :
          /\ AddSignals(signals, fail)
          /\ RecordCall("add", signals, fail)
          /\ LogCall("add", signals, fail)
          /\ UNCHANGED drainFrame
    \/ \E signals \in Slices, fail \in 0..2 :
          /\ RemoveSignals(signals, fail)
          /\ RecordCall("remove", signals, fail)
          /\ LogCall("remove", signals, fail)
          /\ UNCHANGED drainFrame
    \/ \E signals \in Slices, fail \in 0..3 :
          /\ ReplaceSignals(signals, fail)
          /\ RecordCall("set", signals, fail)
          /\ LogCall("set", signals, fail)
          /\ UNCHANGED drainFrame
    \/ \E fail \in 0..1 :
          /\ Dispose(fail)
          /\ RecordCall("drop", <<>>, fail)
          /\ LogCall("drop", <<>>, fail)
          /\ UNCHANGED drainFrame
    \/ make_dispatcher /\ LogIdle /\ UNCHANGED <<callVars, drainFrame>>
    \/ drop_dispatcher /\ LogIdle /\ UNCHANGED <<callVars, drainFrame>>
    \/ \E fail \in BOOLEAN :
          ready(fail) /\ LogRead(fail) /\ UNCHANGED <<callVars, drainFrame>>
    \/ \E s \in Signal, to \in Origin :
          /\ Raise(s, to)
          /\ RecordRaise(s)
          /\ LogRaise(s, to)
          /\ UNCHANGED drainFrame

\* the thread starts with no signal blocked (a signal that is blocked and
\* not tracked comes about by a call that fails)
InitDrain == Init /\ initMask = {}

SpecDrain == InitDrain /\ [][NextDrain]_vars

-----------------------------------------------------------------------------
(* SpecOrder: the drain of a Signals value made for synchronous and other
   signals: new, make_dispatcher and remove_signals, the signals sent and
   the calls of ready(), with the logs of the sends and of the reads *)

\* the slices of at most two of the signals of Wide
WideSlices == UNION {[1..n -> Wide] : n \in 0..Cardinality(Origin)}

orderFrame == <<callVars, tripVars, owned, pollVars, stepVars, peer>>

NextOrder ==
    \/ \E signals \in WideSlices :
          /\ Create(signals, 0)
          /\ LogCall("new", signals, 0)
          /\ UNCHANGED orderFrame
    \/ \E s \in Wide, fail \in 0..2 :
          /\ RemoveSignals(<<s>>, fail)
          /\ LogCall("remove", <<s>>, fail)
          /\ UNCHANGED orderFrame
    \/ make_dispatcher /\ LogIdle /\ UNCHANGED orderFrame
    \/ \E fail \in BOOLEAN :
          ready(fail) /\ LogRead(fail) /\ UNCHANGED orderFrame
    \/ \E s \in Wide, to \in Origin :
          Raise(s, to) /\ LogRaise(s, to) /\ UNCHANGED orderFrame

SpecOrder == InitDrain /\ [][NextOrder]_vars

-----------------------------------------------------------------------------
(* Vocabulary of the properties *)

\* the signals the events of a callback log identify, in order
Sigs(evs) == [i \in DOMAIN evs |-> EventSignal(evs[i])]

\* the records the events of a callback log tell of, in order
Recs(evs) == [i \in DOMAIN evs |-> EventRec(evs[i])]

SetOf(seq) == {seq[i] : i \in DOMAIN seq}

\* how often x occurs in seq
Count(seq, x) == Cardinality({i \in DOMAIN seq : seq[i] = x})

\* the records pending in the SignalFd when the last ready() began
QueuedInFd == {r \in SetOf(queued) : r.sig \in sfdMask}

\* the records pending in the SignalFd now
PendingInFd ==
    {Rec(s, "thread") : s \in pending \cap sfdMask}
        \cup {Rec(s, "process") : s \in shared \cap sfdMask}

\* a log of sends without the repeated ones (first occurrence kept): the
\* records in the order in which they were queued
RECURSIVE Dedup(_)
Dedup(log) ==
    IF log = <<>> THEN <<>>
    ELSE <<Head(log)>> \o Dedup(WithoutRec(Tail(log), Head(log)))

\* of two records pending together, a read takes a before b: sent to the
\* thread before sent to the process; sent the same way, a synchronous
\* signal before another, and else the lower number
Precedes(a, b) ==
    IF a.to # b.to THEN a.to = "thread"
    ELSE IF (a.sig \in Synchronous) # (b.sig \in Synchronous)
    THEN a.sig \in Synchronous
    ELSE Signo(a.sig) < Signo(b.sig)

\* the records of a sequence are in the order in which reads take them
InReadOrder(recs) ==
    \A i, j \in DOMAIN recs : i < j => Precedes(recs[i], recs[j])

\* some read of the last ready() failed
HasErr(log) == \E i \in DOMAIN log : log[i].tag = "Err"

-----------------------------------------------------------------------------
(* C1: after any sequence of calls that all returned success, the mask
   committed to the SignalFd equals the tracked set of the instance. *)
C1_FdMaskIsTrackedSet ==
    (allOk /\ st = "live") => (sfdOpen /\ sfdMask = mask)

C1_Witness ==
    /\ allOk /\ st = "live"
    /\ lastOp.op = "remove" /\ lastOp.arg # {}
    /\ mask # {} /\ sfdMask = mask

(* C2 (as claimed): single instance, nobody else changes the thread mask:
   after every new, add_signals, remove_signals or set_signals that returns
   success, every tracked signal is blocked on the thread. *)
C2_TrackedIsBlocked ==
    (st = "live" /\ lastOp.op \in {"new", "add", "remove", "set"}
        /\ lastOp.fail = 0)
      => mask \subseteq threadMask

(* C3: after a Dispose whose unblock succeeded, no signal of the set tracked
   at disposal is blocked on the thread. *)
C3_DisposeUnblocksTracked ==
    (lastOp.op = "drop" /\ lastOp.fail = 0) => mask \cap threadMask = {}

C3_Witness ==
    /\ lastOp.op = "drop" /\ lastOp.fail = 0 /\ allOk
    /\ mask # {} /\ mask \cap threadMask = {}

(* C4, as claimed: after successful calls and a successful Dispose the thread
   mask is the initial mask M0 again, whatever M0 was. *)
C4_Original_DisposeRestoresM0 ==
    (lastOp.op = "drop" /\ allOk) => threadMask = initMask

(* C4, amended: after successful calls and a successful Dispose the thread
   mask is M0 without the signals that were passed to the calls; it is M0
   exactly when M0 blocked none of those signals. *)
C4_DisposeLeavesM0MinusTouched ==
    (lastOp.op = "drop" /\ allOk) => threadMask = initMask \ touched

C4_Witness ==
    /\ lastOp.op = "drop" /\ allOk
    /\ initMask # {} /\ touched # {} /\ touched \cap initMask = {}
    /\ threadMask = initMask

(* C5: remove_signals(R) leaves the block state of every signal that stays
   tracked (T \ R) as it was.  A step that ends with lastOp.op = "remove" is
   the call itself, with T = mask before it and R = lastOp'.arg, or a later
   step that is no call on the instance. *)
C5_RemoveKeepsRemainingBlocked ==
    [][lastOp'.op = "remove" =>
          \A s \in mask \ lastOp'.arg :
              (s \in threadMask') = (s \in threadMask)]_vars

C5_Witness ==
    /\ lastOp.op = "remove" /\ lastOp.fail = 0 /\ lastOp.arg # {}
    /\ lastOp.arg \cap threadMask = {}
    /\ mask # {} /\ mask \subseteq threadMask

(* C6: a successful add_signals(A), A disjoint from the tracked set T, then a
   successful remove_signals(A), leaves the tracked set at T. *)
C6_AddRemoveRoundTrip ==
    roundTrip.stage = "removed" => mask = roundTrip.pre

C6_Witness ==
    /\ roundTrip.stage = "removed"
    /\ roundTrip.pre # {} /\ roundTrip.arg # {}
    /\ mask = roundTrip.pre

-----------------------------------------------------------------------------
(* C7, as claimed: a ready() without a failed read, with nothing else done
   while it runs, gives the callback every record pending in the SignalFd,
   once each, in the order in which the records were queued, and returns
   with none pending. *)
C7_Original_DrainInQueueOrder ==
    (readyRet = "drained" /\ midDrain = 0) =>
        /\ Recs(delivered) = SelectSeq(Dedup(queued), LAMBDA r : r.sig \in sfdMask)
        /\ PendingInFd = {}

(* C7, amended: a ready() without a failed read gives the callback one call
   per record read, in the order the reads returned them; it returns after
   a read that found none, with none pending, having delivered every record
   that was pending in the SignalFd when it began, but those of a signal
   that a call of the callback unblocked.  When nothing else is done while
   it runs it delivers those records and none else, not in the order of
   arrival: the signals sent to the thread before those sent to the
   process, and of each the synchronous signals first, then by rising
   signal number.  The records that arrive while ready() runs are read by
   the same ready(). *)
C7_DrainDeliversAllInReadOrder ==
    readyRet = "drained" =>
        /\ delivered = [i \in 1..(Len(readLog) - 1) |-> Event(readLog[i].info)]
        /\ readLog[Len(readLog)].tag = "None"
        /\ PendingInFd = {}
        /\ QueuedInFd \subseteq SetOf(Recs(delivered))
        /\ midDrain = 0 =>
              /\ SetOf(Recs(delivered)) = QueuedInFd
              /\ InReadOrder(Recs(delivered))

\* a synchronous signal and another one, sent the same way, were delivered:
\* the synchronous one first, though it was sent last and has the higher
\* number
C7_Witness ==
    /\ readyRet = "drained" /\ midDrain = 0
    /\ Len(delivered) = 2
    /\ Recs(delivered) = <<queued[2], queued[1]>>
    /\ queued[2].sig \in Synchronous /\ queued[1].sig \notin Synchronous
    /\ queued[2].to = queued[1].to
    /\ Signo(queued[2].sig) > Signo(queued[1].sig)

(* C8, as claimed: after a successful Create every delivery of a tracked
   signal shows as exactly one drained event, so that two raises of one
   signal before a drain give two events. *)
C8_Original_OneEventPerRaise ==
    (allOk /\ st = "live" /\ readyRet = "drained" /\ midDrain = 0) =>
        \A s \in mask :
            Count(Sigs(delivered), s)
                = Cardinality({i \in DOMAIN queued : queued[i].sig = s})

(* C8, amended: after successful calls no delivery of a tracked signal is
   lost, and a drain gives one event for each tracked signal and each of
   the two ways (to the thread, to the process) in which it was sent since
   the last drain, however often it was sent that way: sends of a signal
   that is already pending the same way coalesce, so two raises of one
   signal before a drain give one event. *)
C8_OneEventPerPendingSignal ==
    (allOk /\ st = "live") =>
        /\ missed \cap mask = {}
        /\ (readyRet = "drained" /\ midDrain = 0) =>
             \A s \in mask :
                Count(Sigs(delivered), s)
                    = Cardinality({o \in Origin : Rec(s, o) \in SetOf(queued)})

\* a tracked signal was raised twice before the drain and delivered once
C8_Witness ==
    /\ allOk /\ st = "live" /\ readyRet = "drained" /\ midDrain = 0
    /\ \E s \in mask :
          /\ queued = <<Rec(s, "thread"), Rec(s, "thread")>>
          /\ Sigs(delivered) = <<s>>

\* what C9 says of the state after remove_signals(R)
AfterRemoveState ==
    LET R == lastOp.arg IN
    /\ R \cap threadMask = {}
    /\ R \cap sfdMask = {}
    /\ R \cap (pending \cup shared) = {}
    /\ midDrain = 0 => R \cap SetOf(Sigs(delivered)) = {}
    /\ mask \subseteq threadMask
    /\ mask \subseteq sfdMask
    /\ missed \cap mask = {}
    /\ readyRet = "drained" =>
          {r \in SetOf(queued) : r.sig \in mask} \subseteq SetOf(Recs(delivered))

(* C9 (as claimed): after a successful remove_signals(R) a signal of R raised
   afterwards is never captured, and a signal still tracked is. *)
C9_AfterRemove ==
    (lastOp.op = "remove" /\ lastOp.fail = 0) => AfterRemoveState

(* C10: when a read fails during a drain, ready() returns without a panic, no
   read and no callback call follows the failed read, the events delivered
   are the records read before it (none made up, none twice), and the
   records not read stay pending in the SignalFd. *)
C10_ReadErrorStopsDrain ==
    HasErr(readLog) =>
        /\ readyRet = "error"
        /\ readLog[Len(readLog)].tag = "Err"
        /\ \A i \in 1..(Len(readLog) - 1) : readLog[i].tag = "Some"
        /\ delivered = [i \in 1..(Len(readLog) - 1) |-> Event(readLog[i].info)]
        /\ \A i, j \in DOMAIN delivered :
              (midDrain = 0 /\ i # j) => delivered[i] # delivered[j]
        /\ midDrain = 0 =>
              /\ InReadOrder(Recs(delivered))
              /\ \A r \in PendingInFd, i \in DOMAIN delivered :
                    Precedes(Recs(delivered)[i], r)
              /\ SetOf(Recs(delivered)) \subseteq QueuedInFd
              /\ PendingInFd = QueuedInFd \ SetOf(Recs(delivered))
        /\ QueuedInFd \ SetOf(Recs(delivered)) \subseteq PendingInFd

C10_Witness ==
    /\ HasErr(readLog) /\ readyRet = "error"
    /\ Len(delivered) = 1
    /\ PendingInFd # {}

-----------------------------------------------------------------------------
(* C11: when set_signals returns an error, whichever of its three steps
   failed, the tracked set is the one it was before the call and the mask of
   the SignalFd is untouched, so that a tracked set that was equal to the
   mask of the SignalFd (every earlier call succeeded) is still equal to
   it. *)
C11_FailedSetKeepsTracked ==
    [][(lastOp'.op = "set" /\ lastOp'.fail # 0)
         => /\ mask' = mask
            /\ sfdMask' = sfdMask
            /\ allOk => mask' = sfdMask']_vars

\* a set_signals failed at its last step: the thread has the new set
\* blocked, the tracked set is still the old one, equal to the fd's mask
C11_Witness ==
    /\ lastOp.op = "set" /\ lastOp.fail = 3
    /\ mask # {} /\ mask = sfdMask
    /\ mask \cap threadMask = {}
    /\ threadMask # initMask

-----------------------------------------------------------------------------
(* C12: a new() that fails, at the block step or at the creation of the
   SignalFd, yields no Signals value and no SignalFd, so that no Dispose can
   follow; when the creation failed after the block step, the signals
   passed are blocked on the thread. *)
C12_FailedNewYieldsNothing ==
    (lastOp.op = "new" /\ lastOp.fail # 0)
      => /\ st = "none"
         /\ ~sfdOpen
         /\ \A fail \in 0..1 : ~ENABLED Dispose(fail)
         /\ lastOp.fail = 2 => lastOp.arg \subseteq threadMask

\* new() failed at the creation of the SignalFd, having blocked signals that
\* were not blocked before
C12_Witness ==
    /\ lastOp.op = "new" /\ lastOp.fail = 2
    /\ lastOp.arg # {} /\ lastOp.arg \cap initMask = {}
    /\ lastOp.arg \subseteq threadMask
    /\ st = "none"

-----------------------------------------------------------------------------
(* C16 (as claimed): remove_signals(R) changes the block state of no signal
   but those of R that were tracked before the call; a signal of R that was
   not tracked keeps its block state. *)
C16_RemoveTouchesOnlyTracked ==
    [][lastOp'.op = "remove"
         => \A s \in Signal \ (mask \cap lastOp'.arg) :
                (s \in threadMask') = (s \in threadMask)]_vars

-----------------------------------------------------------------------------
(* C17: add_signals and remove_signals assign the tracked set before their
   first fallible step and do not put it back: when add_signals(A) returns
   an error the tracked set is the old one with A added, when
   remove_signals(R) returns an error it is the old one without R, and the
   mask of the SignalFd is the one before the call. *)
C17_FailedAddRemoveKeepNewTracked ==
    [][/\ (lastOp'.op = "add" /\ lastOp'.fail # 0)
            => (mask' = mask \cup lastOp'.arg /\ sfdMask' = sfdMask)
       /\ (lastOp'.op = "remove" /\ lastOp'.fail # 0)
            => (mask' = mask \ lastOp'.arg /\ sfdMask' = sfdMask)]_vars

\* a failed add_signals left a tracked set that is not the fd's mask
C17_Witness ==
    /\ lastOp.op = "add" /\ lastOp.fail # 0
    /\ st = "live" /\ sfdOpen
    /\ lastOp.arg \subseteq mask
    /\ ~(lastOp.arg \subseteq sfdMask)

-----------------------------------------------------------------------------
(* SpecOwn: the calls on one Signals value, with the account of what they
   did to the thread mask.  A call that went from the blocked set
   `threadMask` to r.blocked, unblocking r.unb on the way, has blocked the
   signals of r.blocked that were not blocked before or that it had
   unblocked itself; `prev` is what the value had blocked before the call. *)
Owns(prev, r) ==
    owned' = (prev \ r.unb) \cup (r.blocked \ (threadMask \ r.unb))

ownFrame == <<tripVars, logVars, pollVars, stepVars, peer>>

NextOwn ==
    \/ \E signals \in Slices, fail \in 0..2 :
          /\ Create(signals, fail)
          /\ RecordCall("new", signals, fail)
          /\ Owns({}, Ret("new", signals, fail))
          /\ UNCHANGED ownFrame
    \/ \E signals \in Slices, fail \in 0..2 :
          /\ AddSignals(signals, fail)
          /\ RecordCall("add", signals, fail)
          /\ Owns(owned, Ret("add", signals, fail))
          /\ UNCHANGED ownFrame
    \/ \E signals \in Slices, fail \in 0..2 :
          /\ RemoveSignals(signals, fail)
          /\ RecordCall("remove", signals, fail)
          /\ Owns(owned, Ret("remove", signals, fail))
          /\ UNCHANGED ownFrame
    \/ \E signals \in Slices, fail \in 0..3 :
          /\ ReplaceSignals(signals, fail)
          /\ RecordCall("set", signals, fail)
          /\ Owns(owned, Ret("set", signals, fail))
          /\ UNCHANGED ownFrame
    \/ \E fail \in 0..1 :
          /\ Dispose(fail)
          /\ RecordCall("drop", <<>>, fail)
          /\ Owns(owned, Ret("drop", <<>>, fail))
          /\ UNCHANGED ownFrame

SpecOwn == Init /\ [][NextOwn]_vars

-----------------------------------------------------------------------------
(* C18 (as claimed): at every return of new, add_signals, remove_signals or
   set_signals on a live Signals value, with success or with an error, every
   signal the value has blocked and not unblocked again is in its tracked
   set, and after a successful Dispose none of them is left blocked. *)
C18_NoMaskLeak ==
    /\ st = "live" => owned \subseteq mask
    /\ (lastOp.op = "drop" /\ lastOp.fail = 0) => owned = {}

-----------------------------------------------------------------------------
(* SpecLive: the source inserted in the event loop.  The loop registers the
   SignalFd with its Poll under interest() and pollopts(), and calls the
   Dispatcher's ready() for each readiness event the Poll gives it. *)

(* EventSource::interest and EventSource::pollopts for Signals *)
interest == "readable"
pollopts == "edge"

\* the SignalFd has a record to read
Readable == sfdOpen /\ (pending \cup shared) \cap sfdMask # {}

\* sending s queues a signal for the thread, which wakes the waiters of every
\* signalfd of the thread (signalfd_notify), the Poll among them; a blocked
\* signal that is already pending in its queue is not queued again and wakes
\* nobody; one that is not blocked is queued and handled, unless its
\* disposition is to ignore it (`ign`): then it is discarded when sent and
\* wakes nobody
Arrives(s, to, ign) ==
    IF s \in threadMask
    THEN s \notin (IF to = "thread" THEN pending ELSE shared)
    ELSE ~ign

\* whether the Poll holds an event for the fd: level-triggered, whenever the
\* fd is readable; edge-triggered, when an event is undispatched (`kept`) or
\* the Poll was woken, and the fd is readable when the Poll looks at it
PollNotify(kept, wake, readable) ==
    IF pollopts = "edge" THEN (kept \/ wake) /\ readable ELSE readable

\* the Poll after a step that woke it or not
Polls(kept, wake) ==
    /\ registered' = (registered /\ sfdOpen')
    /\ notify' = (registered' /\ PollNotify(kept, wake, Readable'))

(* Evented::register: epoll looks at the fd when it is added *)
register ==
    /\ st = "live"
    /\ ~registered
    /\ registered' = TRUE
    /\ notify' = PollNotify(FALSE, TRUE, Readable)
    /\ NoRead
    /\ UNCHANGED <<objVars, initMask, sigVars>>

(* Evented::reregister: epoll looks at the fd again when it is modified *)
reregister ==
    /\ st = "live"
    /\ registered
    /\ notify' = PollNotify(notify, TRUE, Readable)
    /\ NoRead
    /\ UNCHANGED <<registered, objVars, initMask, sigVars>>

(* Evented::deregister *)
deregister ==
    /\ st = "live"
    /\ registered
    /\ registered' = FALSE
    /\ notify' = FALSE
    /\ NoRead
    /\ UNCHANGED <<objVars, initMask, sigVars>>

\* the event loop takes the readiness event and calls ready(), or the
\* ready() it called goes on
PollReady(fail) ==
    /\ readyRet = "running" \/ (registered /\ notify)
    /\ ready(fail)
    /\ Polls(readyRet = "running" /\ notify, FALSE)

\* a signal is sent while the source is in the loop; `ign`: the process
\* ignores the signal
LiveRaise(s, to, ign) ==
    /\ Raise(s, to)
    /\ Polls(notify, Arrives(s, to, ign))

\* a step that may close the SignalFd or unblock signals: a closed fd leaves
\* the Poll, an event for a fd with nothing left to read is dropped
Closing == Polls(notify, FALSE)

\* a call that sets the mask of the SignalFd (signalfd on an existing fd
\* wakes its waiters), when it got that far
Masking(ok) == Polls(notify, ok)

liveFrame == <<callVars, tripVars, logVars, owned, stepVars, peer>>

\* the event loop dispatches one readiness event, a turn of the loop of
\* ready() at a time
PollStep ==
    \E fail \in BOOLEAN : PollReady(fail) /\ UNCHANGED liveFrame

\* the same, with no failing read
CleanPollStep == PollReady(FALSE) /\ UNCHANGED liveFrame

NextLive ==
    \/ \E signals \in Slices, fail \in 0..2 :
          Create(signals, fail) /\ UNCHANGED <<pollVars, liveFrame>>
    \/ \E signals \in Slices, fail \in 0..2 :
          AddSignals(signals, fail) /\ Masking(fail = 0)
             /\ UNCHANGED liveFrame
    \/ \E signals \in Slices, fail \in 0..2 :
          RemoveSignals(signals, fail) /\ Masking(fail = 0)
             /\ UNCHANGED liveFrame
    \/ \E signals \in Slices, fail \in 0..3 :
          ReplaceSignals(signals, fail) /\ Masking(fail = 0)
             /\ UNCHANGED liveFrame
    \/ make_dispatcher /\ UNCHANGED <<pollVars, liveFrame>>
    \/ register /\ UNCHANGED liveFrame
    \/ reregister /\ UNCHANGED liveFrame
    \/ deregister /\ UNCHANGED liveFrame
    \/ \E s \in Signal, to \in Origin, ign \in BOOLEAN :
          LiveRaise(s, to, ign) /\ UNCHANGED liveFrame
    \/ PollStep
    \/ \E fail \in 0..1 : Dispose(fail) /\ Closing /\ UNCHANGED liveFrame
    \/ drop_dispatcher /\ Closing /\ UNCHANGED liveFrame

(* The event loop dispatches every event its Poll returns and lets a ready()
   it called run to its end (weak fairness of PollStep); a read error does
   not repeat for ever (strong fairness of the turn with no failing read). *)
SpecLive ==
    /\ Init
    /\ [][NextLive]_vars
    /\ WF_vars(PollStep)
    /\ SF_vars(CleanPollStep)

\* the source is in the loop: registered, with its Dispatcher
Polled == st = "live" /\ disp > 0 /\ registered

-----------------------------------------------------------------------------
(* C13 (as claimed): once the Signals value is dropped the SignalFd is
   released, however often it was registered and whether or not a
   Dispatcher made by make_dispatcher is still alive. *)
C13_DisposeReleasesFd ==
    st = "dropped" => ~sfdOpen

-----------------------------------------------------------------------------
(* C15 (as claimed): while the source stays in the loop, every record
   queued in the SignalFd is eventually given to the callback, unless a
   call on the Signals value takes it out of the SignalFd first (it
   unblocks the signal, or takes the signal out of the fd's mask). *)
C15_EveryRecordDelivered ==
    \A s \in Signal :
        (Polled /\ s \in (pending \cup shared) \cap sfdMask)
          ~> \/ s \in SetOf(Sigs(delivered))
             \/ s \notin (pending \cup shared) \cap sfdMask
             \/ ~Polled

-----------------------------------------------------------------------------
(* SpecSteps: set_signals statement by statement, with signals arriving
   between its statements. *)

\* an unblock step that spares the signals of the new mask
set_unblock_delta(self, blocked, new_mask) ==
    thread_unblock(blocked, self.mask \ new_mask)

(* set_signals, line 116: self.mask.thread_unblock() *)
set_unblock(self, blocked, new_mask) ==
    thread_unblock(blocked, self.mask)

(* set_signals, line 117: new_mask.thread_block() *)
set_block(blocked, new_mask) ==
    thread_block(blocked, new_mask)

\* the call begins: new_mask is built and the old tracked set is unblocked,
\* or (fail = 1) the unblock fails and the call returns
SetUnblock(signals, fail) ==
    /\ st = "live"
    /\ pc = "idle"
    /\ IF fail = 1
       THEN /\ ReplaceSignals(signals, 1)
            /\ UNCHANGED stepVars
       ELSE LET new_mask == AddAll({}, signals)
                b == set_unblock(Self, threadMask, new_mask)
            IN
            /\ SetThreadMask(b, threadMask \ b)
            /\ pc' = "unblocked"
            /\ newMask' = new_mask
            /\ NoRead
            /\ UNCHANGED <<objVars, initMask>>

\* the new mask is blocked, or (fail = 1) the block fails and the call returns
SetBlock(fail) ==
    /\ pc = "unblocked"
    /\ IF fail = 1
       THEN /\ pc' = "idle"
            /\ newMask' = {}
            /\ UNCHANGED sigVars
       ELSE /\ SetThreadMask(set_block(threadMask, newMask), {})
            /\ pc' = "blocked"
            /\ UNCHANGED newMask
    /\ NoRead
    /\ UNCHANGED <<objVars, initMask>>

\* the new mask is committed to the SignalFd and assigned to self.mask, or
\* (fail = 1) set_mask fails and the call returns
SetCommit(fail) ==
    /\ pc = "blocked"
    /\ IF fail = 1
       THEN UNCHANGED <<mask, sfdMask>>
       ELSE /\ sfdMask' = newMask
            /\ mask' = newMask
    /\ pc' = "idle"
    /\ newMask' = {}
    /\ NoRead
    /\ UNCHANGED <<st, sfdOpen, disp, initMask, sigVars>>

\* history kept of a step of set_signals: the call is recorded when it
\* returns, at the step `at` when it failed there
RecordStep(at, arg, fail) ==
    IF fail = 1 THEN Record("set", arg, FALSE, at)
    ELSE IF at = 3 THEN Record("set", arg, TRUE, 0)
    ELSE IF at = 1 THEN missed' = {} /\ UNCHANGED <<allOk, lastOp>>
    ELSE UNCHANGED callVars

stepFrame == <<tripVars, logVars, owned, pollVars, peer>>

NextSteps ==
    \/ \E signals \in Slices, fail \in 0..2 :
          /\ pc = "idle"
          /\ Create(signals, fail)
          /\ RecordCall("new", signals, fail)
          /\ UNCHANGED <<stepVars, stepFrame>>
    \/ \E signals \in Slices, fail \in 0..1 :
          /\ SetUnblock(signals, fail)
          /\ RecordStep(1, AddAll({}, signals), fail)
          /\ UNCHANGED stepFrame
    \/ \E fail \in 0..1 :
          SetBlock(fail) /\ RecordStep(2, newMask, fail) /\ UNCHANGED stepFrame
    \/ \E fail \in 0..1 :
          SetCommit(fail) /\ RecordStep(3, newMask, fail) /\ UNCHANGED stepFrame
    \/ \E s \in Signal, to \in Origin :
          Raise(s, to) /\ RecordRaise(s) /\ UNCHANGED <<stepVars, stepFrame>>

SpecSteps == Init /\ [][NextSteps]_vars

-----------------------------------------------------------------------------
(* C19 (as claimed): during set_signals(N) on a value tracking T, a signal
   of both T and N that is blocked stays blocked over every step of the
   call. *)
C19_Original_CommonStaysBlocked ==
    [][\A s \in mask \cap newMask' :
          s \in threadMask => s \in threadMask']_vars

(* C19 (amended): between the unblock step and the block step of
   set_signals(N) no signal of T is blocked, those of N included, and none
   is queued: one that arrives then takes its disposition.  From the block
   step on every signal of N is blocked. *)
C19_WindowUnblocksCommon ==
    /\ pc = "unblocked" =>
          (mask \cap threadMask = {} /\ mask \cap (pending \cup shared) = {})
    /\ pc = "blocked" => newMask \subseteq threadMask

\* in the window of a set_signals that follows successful calls only, a
\* signal of both the old and the new set was raised and was not queued
C19_Witness ==
    /\ pc = "unblocked" /\ allOk
    /\ \E s \in mask \cap newMask :
          s \in missed /\ s \notin pending \cup shared

-----------------------------------------------------------------------------
(* SpecTwo: two Signals values on one thread.  The second one (`peer`) is
   made by new and dropped; the calls on the first one are those of Spec. *)
PeerSelf == [mask |-> peer.mask, sfd |-> peer.sfd]

(* Signals::new for the second value *)
PeerCreate(signals, fail) ==
    /\ peer.st = "none"
    /\ LET r == new(threadMask, signals, fail) IN
       /\ SetThreadMask(r.blocked, r.unb)
       /\ peer' = IF r.ok THEN [st |-> "live", mask |-> r.mask, sfd |-> r.sfd]
                  ELSE peer
    /\ NoRead
    /\ UNCHANGED <<objVars, initMask>>

(* Drop for the second value *)
PeerDispose(fail) ==
    /\ peer.st = "live"
    /\ LET r == drop(PeerSelf, threadMask, fail) IN
       /\ SetThreadMask(r.blocked, r.unb)
       /\ peer' = [st |-> "dropped", mask |-> r.mask, sfd |-> r.sfd]
    /\ NoRead
    /\ UNCHANGED <<objVars, initMask>>

twoFrame == <<tripVars, logVars, owned, pollVars, stepVars>>

NextTwo ==
    \/ \E signals \in Slices, fail \in 0..2 :
          /\ Create(signals, fail)
          /\ RecordCall("new", signals, fail)
          /\ UNCHANGED <<peer, twoFrame>>
    \/ \E signals \in Slices, fail \in 0..2 :
          /\ AddSignals(signals, fail)
          /\ RecordCall("add", signals, fail)
          /\ UNCHANGED <<peer, twoFrame>>
    \/ \E signals \in Slices, fail \in 0..2 :
          /\ RemoveSignals(signals, fail)
          /\ RecordCall("remove", signals, fail)
          /\ UNCHANGED <<peer, twoFrame>>
    \/ \E signals \in Slices, fail \in 0..3 :
          /\ ReplaceSignals(signals, fail)
          /\ RecordCall("set", signals, fail)
          /\ UNCHANGED <<peer, twoFrame>>
    \/ \E fail \in 0..1 :
          /\ Dispose(fail)
          /\ RecordCall("drop", <<>>, fail)
          /\ UNCHANGED <<peer, twoFrame>>
    \/ \E signals \in Slices, fail \in 0..2 :
          PeerCreate(signals, fail) /\ UNCHANGED <<callVars, twoFrame>>
    \/ \E fail \in 0..1 :
          PeerDispose(fail) /\ UNCHANGED <<callVars, twoFrame>>

SpecTwo == Init /\ [][NextTwo]_vars

\* both values are live before the step
BothLive == st = "live" /\ peer.st = "live"

-----------------------------------------------------------------------------
(* C20 (as claimed): with two live Signals values whose tracked sets
   overlap, no drop, remove_signals or set_signals on one of them unblocks a
   signal that the other tracks as well: it is still blocked when the call
   returns. *)
C20_Original_OtherStaysBlocked ==
    [][BothLive =>
         \A s \in mask \cap peer.mask :
             s \in threadMask => s \in threadMask']_vars

(* C20 (amended): a successful drop of one value unblocks its whole tracked
   set, the signals the other value tracks too; what a call on one value
   leaves blocked of the other's tracked set are the signals that the
   acting value does not track and that are not passed to its
   remove_signals. *)
C20_OtherKeepsOnlyUnshared ==
    [][BothLive =>
         /\ peer' = peer =>
               \A s \in peer.mask \ (mask \cup lastOp'.arg) :
                   s \in threadMask => s \in threadMask'
         /\ peer' # peer =>
               \A s \in mask \ peer.mask :
                   s \in threadMask => s \in threadMask'
         /\ (st' = "dropped" /\ lastOp'.fail = 0) =>
               mask \cap threadMask' = {}
         /\ (peer'.st = "dropped" /\ threadMask' # threadMask) =>
               peer.mask \cap threadMask' = {}]_vars

\* the first value was dropped while the second was live: the signal they
\* shared is unblocked, the one only the second tracks is still blocked
C20_Witness ==
    /\ lastOp.op = "drop" /\ lastOp.fail = 0
    /\ st = "dropped" /\ peer.st = "live"
    /\ mask \cap peer.mask # {}
    /\ mask \cap threadMask = {}
    /\ peer.mask \ mask # {}
    /\ (peer.mask \ mask) \subseteq threadMask

====
